---- MODULE Spec2Model ----
(***************************************************************************)
(* Model of dataflow/DataReaders/VawFileReaders/VawFileReader.py: the      *)
(* header parsing and glacier binding of VawFileReader and its two date    *)
(* normalizers.                                                            *)
(*                                                                         *)
(* A Python str is a sequence of one-character strings; a text file is the *)
(* sequence of its lines, each line ending with "\n" as the file iterator  *)
(* delivers it.  A dict is the sequence of its <<key, value>> pairs in     *)
(* insertion order, which is the order Python iterates it in.              *)
(***************************************************************************)
EXTENDS Integers, Sequences, FiniteSets, TLC

VARIABLES
    hlc,        \* VawFileReader._headerLineContent, the class-level dict (line 38)
    readers,    \* the reader instances whose __init__ returned, oldest first
    registry,   \* the caller's glacier dict, as the sequence of its values
    dateIn,     \* the date token handed to the normalizers
    last        \* what the latest call did and returned or raised

vars == <<hlc, readers, registry, dateIn, last>>

-----------------------------------------------------------------------------
(* Bounds of the model *)

MaxReaders == 2
MaxGlaciers == 2

-----------------------------------------------------------------------------
(* Python str operations used by the reader *)

NL == "\n"

IsSpace(c) == c \in {" ", NL, "\t"}

RECURSIVE LStrip(_)
LStrip(s) ==
    IF s = <<>> THEN s
    ELSE IF IsSpace(Head(s)) THEN LStrip(Tail(s)) ELSE s

RECURSIVE RStrip(_)
RStrip(s) ==
    IF s = <<>> THEN s
    ELSE IF IsSpace(s[Len(s)]) THEN RStrip(SubSeq(s, 1, Len(s) - 1)) ELSE s

\* str.strip()
Strip(s) == RStrip(LStrip(s))

\* str.split(c) for a one-character separator: always at least one part
RECURSIVE Split(_, _)
Split(s, c) ==
    IF \A i \in 1..Len(s) : s[i] # c
    THEN <<s>>
    ELSE LET i == CHOOSE k \in 1..Len(s) :
                      s[k] = c /\ \A j \in 1..(k - 1) : s[j] # c
         IN  <<SubSeq(s, 1, i - 1)>> \o Split(SubSeq(s, i + 1, Len(s)), c)

\* str.replace(old, ""): every non-overlapping occurrence, left to right
RECURSIVE RemoveAll(_, _)
RemoveAll(s, old) ==
    IF Len(s) < Len(old) \/ old = <<>> THEN s
    ELSE IF SubSeq(s, 1, Len(old)) = old
         THEN RemoveAll(SubSeq(s, Len(old) + 1, Len(s)), old)
         ELSE <<Head(s)>> \o RemoveAll(Tail(s), old)

\* s[a:b] with Python's clamping of the indices
Slice(s, a, b) ==
    LET hi == IF b < Len(s) THEN b ELSE Len(s)
    IN  IF a + 1 > hi THEN <<>> ELSE SubSeq(s, a + 1, hi)

Digits == {"0", "1", "2", "3", "4", "5", "6", "7", "8", "9"}

DigitVal(c) ==
    CASE c = "0" -> 0 [] c = "1" -> 1 [] c = "2" -> 2 [] c = "3" -> 3
      [] c = "4" -> 4 [] c = "5" -> 5 [] c = "6" -> 6 [] c = "7" -> 7
      [] c = "8" -> 8 [] c = "9" -> 9

RECURSIVE DecVal(_)
DecVal(s) ==
    IF s = <<>> THEN 0
    ELSE 10 * DecVal(SubSeq(s, 1, Len(s) - 1)) + DigitVal(s[Len(s)])

\* int(s): surrounding whitespace and one sign are accepted, then only digits;
\* anything else is a ValueError (ok = FALSE)
PyInt(s) ==
    LET t == Strip(s)
        signed == t # <<>> /\ Head(t) \in {"+", "-"}
        body == IF signed THEN Tail(t) ELSE t
        ok == body # <<>> /\ \A i \in 1..Len(body) : body[i] \in Digits
    IN  [ok |-> ok,
         val |-> IF ~ok THEN 0
                 ELSE IF signed /\ Head(t) = "-" THEN 0 - DecVal(body)
                 ELSE DecVal(body)]

\* dict operations on the sequence of <<key, value>> pairs
DictHas(d, k) == \E i \in 1..Len(d) : d[i][1] = k

DictGet(d, k) == d[CHOOSE i \in 1..Len(d) : d[i][1] = k][2]

DictSet(d, k, v) ==
    IF DictHas(d, k)
    THEN [i \in 1..Len(d) |-> IF d[i][1] = k THEN <<k, v>> ELSE d[i]]
    ELSE Append(d, <<k, v>>)

PyNone == <<"None">>

-----------------------------------------------------------------------------
(* Class attributes of VawFileReader *)

NUMBER_DATA_LINES == -1
HEADER_POSITION_SHORTNAME == 1
HEADER_POSITION_VAWIDENTIFIER == 2

DATA_SOURCE_PREFIX == <<"#", " ", "©", " ">>

LABEL_SHORTNAME ==
    <<"G", "l", "a", "c", "i", "e", "r", " ", "s", "h", "o", "r", "t", " ",
      "n", "a", "m", "e">>

LABEL_VAWIDENTIFIER ==
    <<"V", "A", "W", " ", "i", "d", "e", "n", "t", "i", "f", "i", "e", "r">>

\* The two literal pieces of the GlacierNotFoundError message around {0} and {1}
MSG_HEAD == <<"No corresponding glacier found. Header information given VAW-PK ">>
MSG_MID == <<" and short name ">>

-----------------------------------------------------------------------------
(* _getMetadata and parseHeader *)

\* _getMetadata: for every key of the dict in iteration order, store the
\* stripped part lineParts[key] (a 0-based index); an IndexError leaves the
\* keys already handled updated and the rest as they were.
RECURSIVE GetMetadataFrom(_, _, _)
GetMetadataFrom(d, lineParts, i) ==
    IF i > Len(d) THEN [dict |-> d, exc |-> "none"]
    ELSE LET key == d[i][1]
         IN  IF key + 1 > Len(lineParts)
             THEN [dict |-> d, exc |-> "IndexError"]
             ELSE GetMetadataFrom(DictSet(d, key, Strip(lineParts[key + 1])),
                                  lineParts, i + 1)

\* A misreading of the positions as 1-based column numbers
GetMetadataOneBased(d, metadataLine) ==
    LET lineParts == Split(metadataLine, ";")
    IN  GetMetadataFrom(d, <<<<>>>> \o lineParts, 1)

GetMetadata(d, metadataLine) ==
    GetMetadataFrom(d, Split(metadataLine, ";"), 1)

\* The body of the loop of parseHeader for one line.  st is the state the
\* loop works on: the class dict, the reader's _dataSource and what was
\* printed.  An exception of _getMetadata skips the rest of the try block.
ParseLine(st, line, lineCounter, numberHeaderLines) ==
    LET md == IF lineCounter = 1
              THEN GetMetadata(st.dict, line)
              ELSE [dict |-> st.dict, exc |-> "none"]
    IN  IF md.exc # "none"
        THEN [dict |-> md.dict,
              dataSource |-> st.dataSource,
              log |-> Append(st.log, [line |-> lineCounter, exc |-> md.exc])]
        ELSE [dict |-> md.dict,
              dataSource |-> IF numberHeaderLines = lineCounter
                             THEN RemoveAll(Strip(line), DATA_SOURCE_PREFIX)
                             ELSE st.dataSource,
              log |-> st.log]

RECURSIVE ParseLines(_, _, _, _)
ParseLines(st, file, lineCounter, numberHeaderLines) ==
    IF lineCounter > Len(file) THEN st
    ELSE ParseLines(ParseLine(st, file[lineCounter], lineCounter, numberHeaderLines),
                    file, lineCounter + 1, numberHeaderLines)

\* A parse that gives up at the first line that raised
RECURSIVE ParseLinesAbort(_, _, _, _)
ParseLinesAbort(st, file, lineCounter, numberHeaderLines) ==
    IF lineCounter > Len(file) \/ st.log # <<>> THEN st
    ELSE ParseLinesAbort(ParseLine(st, file[lineCounter], lineCounter, numberHeaderLines),
                         file, lineCounter + 1, numberHeaderLines)

ParseHeaderAbort(d, file, numberHeaderLines, dataSource) ==
    ParseLinesAbort([dict |-> d, dataSource |-> dataSource, log |-> <<>>],
                    file, 1, numberHeaderLines)

ParseHeader(d, file, numberHeaderLines, dataSource) ==
    ParseLines([dict |-> d, dataSource |-> dataSource, log |-> <<>>],
               file, 1, numberHeaderLines)

-----------------------------------------------------------------------------
(* Glacier resolution of __init__ *)

NoGlacier == [key |-> 0, pkVaw |-> 0]

RECURSIVE ResolveFrom(_, _, _, _)
ResolveFrom(glaciers, givenVawId, i, glacierFound) ==
    IF i > Len(glaciers) THEN glacierFound
    ELSE ResolveFrom(glaciers, givenVawId, i + 1,
                     IF glaciers[i].pkVaw = givenVawId
                     THEN glaciers[i] ELSE glacierFound)

\* A scan that stops at the first match
ResolveFirst(glaciers, givenVawId) ==
    IF \E i \in 1..Len(glaciers) : glaciers[i].pkVaw = givenVawId
    THEN glaciers[CHOOSE i \in 1..Len(glaciers) :
                      /\ glaciers[i].pkVaw = givenVawId
                      /\ \A j \in 1..(i - 1) : glaciers[j].pkVaw # givenVawId]
    ELSE NoGlacier

\* A scan that keeps the last glacier seen, matching or not
ResolveAny(glaciers, givenVawId) ==
    IF glaciers = <<>> THEN NoGlacier ELSE glaciers[Len(glaciers)]

Resolve(glaciers, givenVawId) == ResolveFrom(glaciers, givenVawId, 1, NoGlacier)

Message(vawPk, shortName) == MSG_HEAD \o vawPk \o MSG_MID \o shortName

-----------------------------------------------------------------------------
(* The inputs: header lines, files, registries *)

H_A1 == <<"n", ";", "A", ";", "1">>
H_B2 == <<"n", ";", " ", "B", " ", ";", " ", "2", " ">>
H_PrefixedA1 == DATA_SOURCE_PREFIX \o H_A1
H_TwoParts == <<"n", ";", "A">>
H_OnePart == <<"n">>
H_NotNumeric == <<"n", ";", "A", ";", "x">>
A_Prefixed == DATA_SOURCE_PREFIX \o <<"V">>
A_PrefixInside == <<"V">> \o DATA_SOURCE_PREFIX \o <<"W">>
A_Plain == <<" ", "V">>

\* The file iterator yields every line with its line break
MkFile(lines) == [i \in 1..Len(lines) |-> lines[i] \o <<NL>>]

Files ==
    { MkFile(<<H_A1, A_Prefixed>>),
      MkFile(<<H_B2, A_PrefixInside>>),
      MkFile(<<H_PrefixedA1>>),
      MkFile(<<H_TwoParts, A_Prefixed>>),
      MkFile(<<H_OnePart, A_Plain>>),
      MkFile(<<H_NotNumeric>>),
      <<>> }

\* _numberHeaderLines: -1 in the base class, a line number in a file family
HeaderLineCounts == {-1, 1, 2}

PkVaws == {1, 2}

\* glaciers.values() of a dict with up to MaxGlaciers entries; the key of an
\* entry is its place of insertion
Registries ==
    UNION { { [i \in 1..n |-> [key |-> i, pkVaw |-> f[i]]] : f \in [1..n -> PkVaws] }
            : n \in 0..MaxGlaciers }

-----------------------------------------------------------------------------
(* The reader *)

\* The numberDataLines property read through a wrong attribute
NumberDataLinesOfHeader(r) == r.numberHeaderLines

\* The numberDataLines property
NumberDataLines(r) == r.numberDataLines

\* self._headerLineContent of any reader is the class dict
HeaderLineContent(r) == hlc

\* __init__ (lines 59-85) as a function of the class dict, the readers so far
\* and the glaciers: the class dict it leaves, the reader it returns (if any)
\* and the record of the call
Init__(d, rs, glaciers, file, numberHeaderLines) ==
    LET d0 == DictSet(DictSet(d, HEADER_POSITION_SHORTNAME, LABEL_SHORTNAME),
                      HEADER_POSITION_VAWIDENTIFIER, LABEL_VAWIDENTIFIER)
        ph == ParseHeader(d0, file, numberHeaderLines, PyNone)
        vawPk == DictGet(ph.dict, HEADER_POSITION_VAWIDENTIFIER)
        shortName == DictGet(ph.dict, HEADER_POSITION_SHORTNAME)
        givenVawId == PyInt(vawPk)
        glacierFound == IF givenVawId.ok
                        THEN Resolve(glaciers, givenVawId.val)
                        ELSE NoGlacier
        outcome == IF ~givenVawId.ok THEN "ValueError"
                   ELSE IF glacierFound # NoGlacier THEN "reader"
                   ELSE "GlacierNotFoundError"
    IN  [dict |-> ph.dict,
         readers |->
             IF outcome = "reader"
             THEN Append(rs, [file |-> file,
                              numberHeaderLines |-> numberHeaderLines,
                              numberDataLines |-> NUMBER_DATA_LINES,
                              dataSource |-> ph.dataSource,
                              glacier |-> glacierFound,
                              parsed |-> ph.dict])
             ELSE rs,
         call |-> [op |-> "new",
                   file |-> file,
                   numberHeaderLines |-> numberHeaderLines,
                   hlcIn |-> d0,
                   hlcOut |-> ph.dict,
                   dataSource |-> ph.dataSource,
                   log |-> ph.log,
                   outcome |-> outcome,
                   message |-> IF outcome = "GlacierNotFoundError"
                               THEN Message(vawPk, shortName) ELSE <<>>,
                   reader |-> IF outcome = "reader" THEN Len(rs) + 1 ELSE 0,
                   nBefore |-> Len(rs)]]

\* VawFileReader(fullFileName, glaciers) for a file family whose
\* _numberHeaderLines is numberHeaderLines
Construct(file, numberHeaderLines) ==
    /\ Len(readers) < MaxReaders
    /\ \E res \in {Init__(hlc, readers, registry, file, numberHeaderLines)} :
           /\ hlc' = res.dict
           /\ readers' = res.readers
           /\ last' = res.call
    /\ UNCHANGED <<registry, dateIn>>

\* reader.parseHeader() called again on a constructed reader
ParseHeaderCall(i) ==
    /\ i \in 1..Len(readers)
    /\ \E ph \in {ParseHeader(hlc, readers[i].file, readers[i].numberHeaderLines,
                              readers[i].dataSource)} :
           /\ hlc' = ph.dict
           /\ readers' = [readers EXCEPT ![i].dataSource = ph.dataSource]
           /\ last' = [op |-> "parseHeader",
                       file |-> readers[i].file,
                       numberHeaderLines |-> readers[i].numberHeaderLines,
                       hlcIn |-> hlc,
                       hlcOut |-> ph.dict,
                       dataSource |-> ph.dataSource,
                       log |-> ph.log,
                       outcome |-> "returned",
                       message |-> <<>>,
                       reader |-> i,
                       nBefore |-> Len(readers)]
    /\ UNCHANGED <<registry, dateIn>>

NoCall == [op |-> "none"]

-----------------------------------------------------------------------------
(* The date normalizers *)

QUALITY_KNOWN == 1
QUALITY_ESTIMATED == 11
DEFAULT_DAY == 1
DEFAULT_MONTH == 9

\* A Python int object, as the dotted normalizer returns for the quality
IntObj(n) == [type |-> "int", value |-> n]

\* The members of DateQualityTypeEnum: opaque tags
Estimated == [type |-> "DateQualityTypeEnum", member |-> "Estimated"]
Precisely == [type |-> "DateQualityTypeEnum", member |-> "Precisely"]

IsLeap(year) == (year % 4 = 0 /\ year % 100 # 0) \/ year % 400 = 0

DaysInMonth(year, month) ==
    IF month = 2 THEN (IF IsLeap(year) THEN 29 ELSE 28)
    ELSE IF month \in {4, 6, 9, 11} THEN 30 ELSE 31

\* datetime.date(year, month, day) raises ValueError unless this holds
\* (the years of datetime run from MINYEAR = 1 to MAXYEAR = 9999)
IsDate(year, month, day) ==
    /\ 1 <= year /\ year <= 9999
    /\ 1 <= month /\ month <= 12
    /\ 1 <= day /\ day <= DaysInMonth(year, month)

Raised(e) == [exc |-> e, date |-> <<0, 0, 0>>, quality |-> [type |-> "none"]]

Returned(year, month, day, quality) ==
    [exc |-> "none", date |-> <<year, month, day>>, quality |-> quality]

SENTINEL == <<"0", "0">>

\* Lines 159-170 and 203-214: the day, the month, the year, then the date.
\* parts is [day, month, year]; a part the list does not have is an IndexError
\* at the place the code reads it.
BuildDate(parts, quality) ==
    LET day == IF parts[1] = SENTINEL THEN [ok |-> TRUE, val |-> DEFAULT_DAY]
               ELSE PyInt(parts[1])
    IN  IF ~day.ok THEN Raised("ValueError")
        ELSE IF Len(parts) < 2 THEN Raised("IndexError")
        ELSE LET month == IF parts[2] = SENTINEL
                          THEN [ok |-> TRUE, val |-> DEFAULT_MONTH]
                          ELSE PyInt(parts[2])
             IN  IF ~month.ok THEN Raised("ValueError")
                 ELSE IF Len(parts) < 3 THEN Raised("IndexError")
                 ELSE LET year == PyInt(parts[3])
                      IN  IF ~year.ok THEN Raised("ValueError")
                          ELSE IF ~IsDate(year.val, month.val, day.val)
                          THEN Raised("ValueError")
                          ELSE Returned(year.val, month.val, day.val, quality)

\* _reformateDate
ReformateDate(dateVaw) ==
    LET dateVawParts == Split(dateVaw, ".")
    IN  IF dateVawParts[1] # SENTINEL /\ Len(dateVawParts) < 2
        THEN Raised("IndexError")
        ELSE BuildDate(dateVawParts,
                       IF dateVawParts[1] = SENTINEL \/ dateVawParts[2] = SENTINEL
                       THEN IntObj(QUALITY_ESTIMATED)
                       ELSE IntObj(QUALITY_KNOWN))

\* The slices of the day and of the month taken for one another
ReformateDateYyyyDdMm(yyyymmdd) ==
    LET dateParts == <<Slice(yyyymmdd, 4, 6),
                       Slice(yyyymmdd, 6, Len(yyyymmdd)),
                       Slice(yyyymmdd, 0, 4)>>
    IN  BuildDate(dateParts,
                  IF dateParts[1] = SENTINEL \/ dateParts[2] = SENTINEL
                  THEN Estimated
                  ELSE Precisely)

\* _reformateDateYyyyMmDd
ReformateDateYyyyMmDd(yyyymmdd) ==
    LET dateParts == <<Slice(yyyymmdd, 6, Len(yyyymmdd)),
                       Slice(yyyymmdd, 4, 6),
                       Slice(yyyymmdd, 0, 4)>>
    IN  BuildDate(dateParts,
                  IF dateParts[1] = SENTINEL \/ dateParts[2] = SENTINEL
                  THEN Estimated
                  ELSE Precisely)

\* _reformateDateMmDd
ReformateDateMmDd(mmdd, yyyy) == ReformateDateYyyyMmDd(yyyy \o mmdd)

Dotted(dd, mm, yyyy) == dd \o <<".">> \o mm \o <<".">> \o yyyy
Compact(dd, mm, yyyy) == yyyy \o mm \o dd

DayTokens ==
    { <<"0", "0">>, <<"0", "1">>, <<"1", "5">>, <<"2", "9">>, <<"3", "1">>,
      <<"5">>, <<"0">>, <<"1", "x">>, <<"0", "0", "1">> }
MonthTokens ==
    { <<"0", "0">>, <<"0", "2">>, <<"0", "6">>, <<"0", "9">>, <<"1", "2">>,
      <<"1", "3">>, <<"6">> }
YearTokens ==
    { <<"2", "0", "1", "8">>, <<"2", "0", "2", "0">>, <<"2", "1", "8">> }

DateInputs ==
    { Dotted(d, m, y) : d \in DayTokens, m \in MonthTokens, y \in YearTokens }
    \cup { Compact(d, m, y) : d \in DayTokens, m \in MonthTokens, y \in YearTokens }
    \cup { <<>>, <<"1", "5", ".", "0", "6">>, <<"0", "0">>, <<"0", "0", ".", "0", "0">> }

\* The token of the docstring of _reformateDate, for the runs of the reader
SampleDateInputs ==
    { Dotted(<<"0", "0">>, <<"0", "0">>, <<"2", "0", "1", "8">>) }

DottedCall ==
    /\ last' = [op |-> "_reformateDate", arg |-> dateIn,
                result |-> ReformateDate(dateIn)]
    /\ UNCHANGED <<hlc, readers, registry, dateIn>>

CompactCall ==
    /\ last' = [op |-> "_reformateDateYyyyMmDd", arg |-> dateIn,
                result |-> ReformateDateYyyyMmDd(dateIn)]
    /\ UNCHANGED <<hlc, readers, registry, dateIn>>

\* _reformateDateMmDd(mmdd, yyyy) with the token cut after its year
MmDdCall ==
    /\ last' = [op |-> "_reformateDateMmDd", arg |-> dateIn,
                result |-> ReformateDateMmDd(Slice(dateIn, 4, Len(dateIn)),
                                             Slice(dateIn, 0, 4))]
    /\ UNCHANGED <<hlc, readers, registry, dateIn>>

-----------------------------------------------------------------------------
(* The specifications *)

Init ==
    /\ hlc = <<>>
    /\ readers = <<>>
    /\ registry \in Registries
    /\ dateIn \in SampleDateInputs
    /\ last = NoCall

Next ==
    \/ \E file \in Files, n \in HeaderLineCounts : Construct(file, n)
    \/ \E i \in 1..MaxReaders : ParseHeaderCall(i)
    \/ (readers # <<>> /\ DottedCall)
    \/ (readers # <<>> /\ CompactCall)
    \/ (readers # <<>> /\ MmDdCall)

Spec == Init /\ [][Next]_vars

\* The normalizers alone, on every token of DateInputs
DateInit ==
    /\ hlc = <<>>
    /\ readers = <<>>
    /\ registry = <<>>
    /\ dateIn \in DateInputs
    /\ last = NoCall

DateNext == DottedCall \/ CompactCall \/ MmDdCall

DateSpec == DateInit /\ [][DateNext]_vars

-----------------------------------------------------------------------------
(* What the claims speak of *)

ReaderCalls == {"new", "parseHeader"}
DateCalls == {"_reformateDate", "_reformateDateYyyyMmDd", "_reformateDateMmDd"}

\* The ';'-separated segments of line 1 of a file that has one
Line1Parts(file) == Split(file[1], ";")

\* Line 1 carries an integer at the vaw-identifier position
HasHeaderId(file) ==
    /\ file # <<>>
    /\ Len(Line1Parts(file)) > HEADER_POSITION_VAWIDENTIFIER
    /\ PyInt(Line1Parts(file)[HEADER_POSITION_VAWIDENTIFIER + 1]).ok

HeaderId(file) == PyInt(Line1Parts(file)[HEADER_POSITION_VAWIDENTIFIER + 1]).val

Matches(glaciers, X) == { i \in 1..Len(glaciers) : glaciers[i].pkVaw = X }

\* C1: for every file whose line 1 carries the integer X at the vaw-identifier
\* position and every registry with a glacier of pkVaw X, construction
\* succeeds and the reader is bound to a glacier of pkVaw X, whatever files
\* the earlier readers were built from; every reader stays bound that way.
C1_ResolvedGlacierHasHeaderId ==
    /\ \A i \in 1..Len(readers) :
           /\ HasHeaderId(readers[i].file)
           /\ readers[i].glacier.pkVaw = HeaderId(readers[i].file)
    /\ (/\ last.op = "new"
        /\ HasHeaderId(last.file)
        /\ Matches(registry, HeaderId(last.file)) # {})
       => /\ last.outcome = "reader"
          /\ last.reader = Len(readers)
          /\ readers[last.reader].file = last.file
          /\ readers[last.reader].glacier.pkVaw = HeaderId(last.file)

\* C1's case: a second reader built from another file, bound to another glacier
C1_Witness ==
    /\ last.op = "new" /\ last.outcome = "reader"
    /\ Len(readers) = 2
    /\ readers[1].file # readers[2].file
    /\ readers[1].glacier.pkVaw # readers[2].glacier.pkVaw

\* C2: when the header identifier parses to an integer X and no glacier of the
\* registry has pkVaw X, construction raises GlacierNotFoundError, its message
\* is the literal text around the identifier and the short name as line 1
\* gives them, and no reader is produced.
C2_GlacierNotFoundRaised ==
    (/\ last.op = "new"
     /\ HasHeaderId(last.file)
     /\ Matches(registry, HeaderId(last.file)) = {})
    => /\ last.outcome = "GlacierNotFoundError"
       /\ last.message =
              MSG_HEAD
              \o Strip(Line1Parts(last.file)[HEADER_POSITION_VAWIDENTIFIER + 1])
              \o MSG_MID
              \o Strip(Line1Parts(last.file)[HEADER_POSITION_SHORTNAME + 1])
       /\ last.reader = 0
       /\ Len(readers) = last.nBefore

\* C2's case: a non-empty registry without the identifier, after a reader exists
C2_Witness ==
    /\ last.op = "new" /\ last.outcome = "GlacierNotFoundError"
    /\ registry # <<>>
    /\ Len(readers) = 1

\* C3: construction ends in one of two ways for every file and registry: a
\* reader bound to a glacier, or GlacierNotFoundError.
C3_OnlyReaderOrGlacierNotFound ==
    last.op = "new" => last.outcome \in {"reader", "GlacierNotFoundError"}

\* The (date, quality) the claim C4 expects of a token triple
ExpectedYear(yyyy) == DecVal(yyyy)
ExpectedMonth(mm) == IF mm = <<"0", "0">> THEN 9 ELSE DecVal(mm)
ExpectedDay(dd) == IF dd = <<"0", "0">> THEN 1 ELSE DecVal(dd)

AllDigits(s, n) == Len(s) = n /\ \A i \in 1..n : s[i] \in Digits

\* C4: for every (day, month, year) token triple that yields a calendar date,
\* the dotted normalizer on dd.mm.yyyy, the compact one on yyyymmdd and the
\* (mmdd, yyyy) entry point return the same pair: the date with the two
\* substitutions, and Estimated iff the day or the month token is "00", else
\* Precise.
C4_NormalizersAgree ==
    \A dd \in DayTokens, mm \in MonthTokens, yyyy \in YearTokens :
        (/\ AllDigits(dd, 2) /\ AllDigits(mm, 2) /\ AllDigits(yyyy, 4)
         /\ IsDate(ExpectedYear(yyyy), ExpectedMonth(mm), ExpectedDay(dd))
         /\ \/ last.op = "_reformateDate" /\ last.arg = Dotted(dd, mm, yyyy)
            \/ last.op = "_reformateDateYyyyMmDd" /\ last.arg = Compact(dd, mm, yyyy)
            \/ last.op = "_reformateDateMmDd" /\ last.arg = Compact(dd, mm, yyyy))
        => last.result =
               Returned(ExpectedYear(yyyy), ExpectedMonth(mm), ExpectedDay(dd),
                        IF dd = <<"0", "0">> \/ mm = <<"0", "0">>
                        THEN Estimated ELSE Precisely)

\* The groups [day, month, year] a normalizer cuts its token into
GroupsOf(call) ==
    IF call.op = "_reformateDate"
    THEN Split(call.arg, ".")
    ELSE <<Slice(call.arg, 6, Len(call.arg)), Slice(call.arg, 4, 6),
           Slice(call.arg, 0, 4)>>

\* The token has the shape its convention asks for: dd.mm.yyyy or yyyymmdd
WellShaped(call) ==
    IF call.op = "_reformateDate"
    THEN /\ Len(Split(call.arg, ".")) = 3
         /\ AllDigits(Split(call.arg, ".")[1], 2)
         /\ AllDigits(Split(call.arg, ".")[2], 2)
         /\ AllDigits(Split(call.arg, ".")[3], 4)
    ELSE AllDigits(call.arg, 8)

\* The groups are all there, each an integer literal, and give a calendar
\* date after the substitutions day "00" -> 1 and month "00" -> 9
GroupsGiveDate(g) ==
    /\ Len(g) >= 3
    /\ PyInt(g[1]).ok /\ PyInt(g[2]).ok /\ PyInt(g[3]).ok
    /\ IsDate(PyInt(g[3]).val,
              IF g[2] = <<"0", "0">> THEN 9 ELSE PyInt(g[2]).val,
              IF g[1] = <<"0", "0">> THEN 1 ELSE PyInt(g[1]).val)

\* C5 as stated: every malformed token (a non-numeric group, a wrong length,
\* an impossible calendar date) makes the normalizers fail.
C5_MalformedTokensFail ==
    (/\ last.op \in DateCalls
     /\ ~(WellShaped(last) /\ GroupsGiveDate(GroupsOf(last))))
    => last.result.exc # "none"

\* C5 as amended: a normalizer fails exactly when a group, as it cuts the token,
\* is missing or no integer literal, or the groups give no calendar date after
\* the substitutions day "00" -> 1 and month "00" -> 9; otherwise it returns
\* that date, so a token of the wrong length whose groups still give a date
\* is accepted.
C5_FailsIffGroupsGiveNoDate ==
    last.op \in DateCalls =>
        LET g == GroupsOf(last)
        IN  /\ last.result.exc = "none" <=> GroupsGiveDate(g)
            /\ last.result.exc = "none" =>
                   last.result.date =
                       << PyInt(g[3]).val,
                          IF g[2] = <<"0", "0">> THEN 9 ELSE PyInt(g[2]).val,
                          IF g[1] = <<"0", "0">> THEN 1 ELSE PyInt(g[1]).val >>

\* C5's case: the compact normalizer returns September 1st for a token of
\* seven characters with month "09" and day "1"; the month stays as written
C5_Witness ==
    /\ last.op = "_reformateDateYyyyMmDd"
    /\ Len(last.arg) = 7
    /\ last.result.exc = "none"
    /\ last.result.date[2] = 9

\* C6: a constructed reader's parsed header fields never change: every reader
\* reports the header values parsed from its own file after any later call.
C6_HeaderNeverChanges ==
    \A i \in 1..Len(readers) : HeaderLineContent(readers[i]) = readers[i].parsed

\* The attribution the claim C7 expects of a line
ExpectedAttribution(line) ==
    LET t == Strip(line)
        n == Len(DATA_SOURCE_PREFIX)
    IN  IF Len(t) >= n /\ SubSeq(t, 1, n) = DATA_SOURCE_PREFIX
        THEN SubSeq(t, n + 1, Len(t))
        ELSE t

\* C7: for every header-line count N >= 1 and file with at least N lines,
\* after parseHeader the attribution is line N trimmed, without the prefix
\* when the line starts with it and otherwise unchanged.
C7_AttributionIsTrimmedLineN ==
    (/\ last.op \in ReaderCalls
     /\ last.numberHeaderLines >= 1
     /\ Len(last.file) >= last.numberHeaderLines)
    => last.dataSource = ExpectedAttribution(last.file[last.numberHeaderLines])

\* C8: when line 1 has fewer segments than the vaw-identifier position needs,
\* parseHeader prints one error, for line 1, leaves every field it could not
\* read as it was (the label, in a construction), stores the fields before
\* it, and still handles the later lines: the attribution of line N > 1 is
\* stored.
C8_ShortHeaderLineIsLoggedAndSkipped ==
    (/\ last.op \in ReaderCalls
     /\ last.file # <<>>
     /\ Len(Line1Parts(last.file)) <= HEADER_POSITION_VAWIDENTIFIER)
    => /\ last.log = <<[line |-> 1, exc |-> "IndexError"]>>
       /\ \A pos \in {HEADER_POSITION_SHORTNAME, HEADER_POSITION_VAWIDENTIFIER} :
              IF pos + 1 > Len(Line1Parts(last.file))
              THEN /\ DictGet(last.hlcOut, pos) = DictGet(last.hlcIn, pos)
                   /\ last.op = "new" =>
                          DictGet(last.hlcOut, pos) \in
                              {LABEL_SHORTNAME, LABEL_VAWIDENTIFIER}
              ELSE DictGet(last.hlcOut, pos) = Strip(Line1Parts(last.file)[pos + 1])
       /\ (last.numberHeaderLines > 1 /\ Len(last.file) >= last.numberHeaderLines)
          => /\ last.dataSource # PyNone
             /\ last.dataSource =
                    RemoveAll(Strip(last.file[last.numberHeaderLines]),
                              DATA_SOURCE_PREFIX)

\* C8's case: a construction whose line 1 raised and whose line 2 gave the
\* attribution
C8_Witness ==
    /\ last.op = "new"
    /\ last.log # <<>>
    /\ last.numberHeaderLines = 2
    /\ last.dataSource = <<"V">>
    /\ DictGet(last.hlcOut, HEADER_POSITION_SHORTNAME) = <<"A">>
    /\ DictGet(last.hlcOut, HEADER_POSITION_VAWIDENTIFIER) = LABEL_VAWIDENTIFIER

\* C9: numberDataLines is -1 on every constructed reader, after any sequence
\* of parseHeader calls, date normalizations and further constructions.
C9_NumberDataLinesIsSentinel ==
    \A i \in 1..Len(readers) : NumberDataLines(readers[i]) = -1

\* C9's case: two readers, one of a file family with header lines, and a
\* parseHeader call behind them
C9_Witness ==
    /\ Len(readers) = 2
    /\ last.op = "parseHeader"
    /\ readers[1].numberHeaderLines = 2

\* C10: resolution scans the whole registry: the reader is bound to the last
\* entry, in iteration order, whose pkVaw is the header identifier, and a
\* construction leaves the registry as it was.
C10_LastMatchWinsRegistryKept ==
    [][ last'.op = "new" =>
            /\ registry' = registry
            /\ last'.outcome = "reader" =>
                   \E m \in Matches(registry, HeaderId(last'.file)) :
                       /\ \A k \in Matches(registry, HeaderId(last'.file)) : k <= m
                       /\ readers'[last'.reader].glacier = registry[m]
                       /\ readers'[last'.reader].glacier.key = m ]_vars

\* C10's case: a reader bound to the second of two glaciers with its identifier
C10_Witness ==
    /\ last.op = "new" /\ last.outcome = "reader"
    /\ Cardinality(Matches(registry, HeaderId(last.file))) >= 2
    /\ readers[last.reader].glacier.key = 2

====
